---- MODULE Spec2Model ----
(***************************************************************************)
(* Model of update_notion_prices.py: a batch job that pages through a      *)
(* Notion database, fetches the latest daily close of every row's ticker   *)
(* from a Stooq CSV download and writes it into the row's Close property.  *)
(*                                                                         *)
(* Text is modelled as a sequence of one-character strings, so that        *)
(* str.strip, str.split, str.splitlines, float() and datetime.strptime are *)
(* computed character by character as the interpreter computes them.       *)
(* A float is the exact decimal <<mantissa, scale>> of its literal,        *)
(* normalised (binary rounding is not modelled); a date is the record      *)
(* [y, m, d] of a valid calendar day.                                      *)
(***************************************************************************)
EXTENDS Integers, Sequences, FiniteSets, TLC

\* Python's None, and every empty value the program tests only for its truth
\* (the empty text, the empty list, the empty dict): the empty sequence.
None == <<>>

\* bool(x) of a text, a list, a dict or None.
Truthy(x) == x # <<>>

\* d.get(k, default) of a dict, which is a record here.
DictGet(d, k, default) == IF k \in DOMAIN d THEN d[k] ELSE default

----------------------------------------------------------------------------
(* Characters and the str methods the program uses *)

Digits == {"0", "1", "2", "3", "4", "5", "6", "7", "8", "9"}

DigitVal(c) ==
  CASE c = "0" -> 0 [] c = "1" -> 1 [] c = "2" -> 2 [] c = "3" -> 3
    [] c = "4" -> 4 [] c = "5" -> 5 [] c = "6" -> 6 [] c = "7" -> 7
    [] c = "8" -> 8 [] c = "9" -> 9

\* The whitespace str.strip() removes (the members the alphabet of the
\* model contains).
Whitespace == {" ", "\t", "\n"}

RECURSIVE LStrip(_)
LStrip(s) ==
  IF s # <<>> /\ Head(s) \in Whitespace THEN LStrip(Tail(s)) ELSE s

RECURSIVE RStrip(_)
RStrip(s) ==
  IF s # <<>> /\ s[Len(s)] \in Whitespace
  THEN RStrip(SubSeq(s, 1, Len(s) - 1))
  ELSE s

\* str.strip()
Strip(s) == RStrip(LStrip(s))

\* str.split(sep) for a one-character separator: always at least one part.
RECURSIVE SplitOn(_, _)
SplitOn(s, sep) ==
  IF \A i \in 1..Len(s) : s[i] # sep
  THEN <<s>>
  ELSE LET k == CHOOSE i \in 1..Len(s) :
                  s[i] = sep /\ \A j \in 1..(i - 1) : s[j] # sep
       IN  <<SubSeq(s, 1, k - 1)>> \o SplitOn(SubSeq(s, k + 1, Len(s)), sep)

\* str.splitlines(): like a split at the line boundary, but a final line
\* boundary opens no empty last line and the empty text has no line.
SplitLines(s) ==
  LET parts == SplitOn(s, "\n")
  IN  IF parts[Len(parts)] = <<>>
      THEN SubSeq(parts, 1, Len(parts) - 1)
      ELSE parts

\* str.upper() on the letters of the alphabet of the model.
UpperChar(c) ==
  CASE c = "n" -> "N" [] c = "v" -> "V" [] c = "d" -> "D" [] c = "a" -> "A"
    [] OTHER -> c

Upper(s) == [i \in 1..Len(s) |-> UpperChar(s[i])]

RECURSIVE SelectLines(_)
SelectLines(ls) ==
  IF ls = <<>> THEN <<>>
  ELSE IF Strip(Head(ls)) # <<>>
       THEN <<Strip(Head(ls))>> \o SelectLines(Tail(ls))
       ELSE SelectLines(Tail(ls))

----------------------------------------------------------------------------
(* float(close_s) *)

RECURSIVE DigitsVal(_)
DigitsVal(s) ==
  IF s = <<>> THEN 0 ELSE 10 * DigitsVal(SubSeq(s, 1, Len(s) - 1)) + DigitVal(s[Len(s)])

AllDigits(s) == \A i \in 1..Len(s) : s[i] \in Digits

RECURSIVE Normalise(_, _)
Normalise(m, e) ==
  IF e > 0 /\ m % 10 = 0 THEN Normalise(m \div 10, e - 1) ELSE <<m, e>>

\* float() of a decimal literal [sign] digits [. digits] with a digit on at
\* least one side of the point; anything else raises ValueError, which is
\* the value None here.  (Exponents, underscores, inf and nan need letters
\* or characters outside the alphabet of the model.)
ParseFloat(str) ==
  LET s     == Strip(str)
      neg   == s # <<>> /\ Head(s) = "-"
      body  == IF s # <<>> /\ Head(s) \in {"-", "+"} THEN Tail(s) ELSE s
      parts == SplitOn(body, ".")
      ip    == parts[1]
      fp    == IF Len(parts) = 2 THEN parts[2] ELSE <<>>
  IN  IF /\ Len(parts) <= 2
         /\ AllDigits(ip) /\ AllDigits(fp)
         /\ Len(ip) + Len(fp) > 0
      THEN LET n == Normalise(DigitsVal(ip \o fp), Len(fp))
           IN  IF neg THEN <<0 - n[1], n[2]>> ELSE n
      ELSE None

----------------------------------------------------------------------------
(* datetime.strptime(date_s, fmt).date() for "%Y-%m-%d" and "%Y%m%d" *)

IsLeap(y) == (y % 4 = 0 /\ y % 100 # 0) \/ y % 400 = 0

DaysInMonth(y, m) ==
  IF m = 2 THEN (IF IsLeap(y) THEN 29 ELSE 28)
  ELSE IF m \in {4, 6, 9, 11} THEN 30 ELSE 31

\* The char of s at position p, or "" past the end.
At(s, p) == IF p \in 1..Len(s) THEN s[p] ELSE ""

\* %m is the regex 1[0-2]|0[1-9]|[1-9]: the length of the first alternative
\* matching at p, or 0.
MonthLen(s, p) ==
  IF At(s, p) = "1" /\ At(s, p + 1) \in {"0", "1", "2"} THEN 2
  ELSE IF At(s, p) = "0" /\ At(s, p + 1) \in (Digits \ {"0"}) THEN 2
  ELSE IF At(s, p) \in (Digits \ {"0"}) THEN 1
  ELSE 0

\* %d is the regex 3[01]|[12]\d|0[1-9]|[1-9]| [1-9].
DayLen(s, p) ==
  IF At(s, p) = "3" /\ At(s, p + 1) \in {"0", "1"} THEN 2
  ELSE IF At(s, p) \in {"1", "2"} /\ At(s, p + 1) \in Digits THEN 2
  ELSE IF At(s, p) = "0" /\ At(s, p + 1) \in (Digits \ {"0"}) THEN 2
  ELSE IF At(s, p) \in (Digits \ {"0"}) THEN 1
  ELSE IF At(s, p) = " " /\ At(s, p + 1) \in (Digits \ {"0"}) THEN 2
  ELSE 0

\* The value of the digits of s in p..p+n-1, a leading space ignored.
FieldVal(s, p, n) ==
  DigitsVal(SelectSeq(SubSeq(s, p, p + n - 1), LAMBDA c : c \in Digits))

\* The regex match of one format from the start of s: sepLen is 1 for
\* "%Y-%m-%d" and 0 for "%Y%m%d".  The engine takes the first month
\* alternative after which a day (and the separator) still matches; the text
\* must then be used up and the day must exist in the calendar, else
\* ValueError (None).
StrpDate(s, sepLen) ==
  LET sepOk(p) == sepLen = 0 \/ At(s, p) = "-"
      mStart   == 5 + sepLen
      \* month alternatives in the order the regex tries them
      mCands   == (IF MonthLen(s, mStart) = 2 THEN <<2>> ELSE <<>>)
                  \o (IF At(s, mStart) \in (Digits \ {"0"}) THEN <<1>> ELSE <<>>)
      dStart(ml) == mStart + ml + sepLen
      fits(ml) == /\ (sepLen = 0 \/ At(s, mStart + ml) = "-")
                  /\ DayLen(s, dStart(ml)) > 0
      good     == SelectSeq(mCands, fits)
  IN  IF /\ Len(s) >= 4
         /\ AllDigits(SubSeq(s, 1, 4))
         /\ sepOk(5)
         /\ good # <<>>
      THEN LET ml  == Head(good)
               dl  == DayLen(s, dStart(ml))
               y   == DigitsVal(SubSeq(s, 1, 4))
               m   == FieldVal(s, mStart, ml)
               d   == FieldVal(s, dStart(ml), dl)
           IN  IF /\ dStart(ml) + dl - 1 = Len(s)
                  /\ y >= 1
                  /\ d <= DaysInMonth(y, m)
               THEN [y |-> y, m |-> m, d |-> d]
               ELSE None
      ELSE None

\* date.__gt__
DateGT(a, b) ==
  \/ a.y > b.y
  \/ a.y = b.y /\ a.m > b.m
  \/ a.y = b.y /\ a.m = b.m /\ a.d > b.d

----------------------------------------------------------------------------
(* fetch_price_stooq: the scan of the CSV body *)

\* ScanLine without the comparison of dates: the last line that parses wins.
ScanLine_LastWins(best, ln) ==
  LET parts   == SplitOn(ln, ",")
      date_s  == Strip(parts[1])
      close_v == ParseFloat(Strip(parts[5]))
      d1      == StrpDate(date_s, 1)
      d       == IF d1 # None THEN d1 ELSE StrpDate(date_s, 0)
  IN  IF Len(parts) < 5 \/ close_v = None \/ d = None THEN best
      ELSE [best_d |-> d, best_close |-> close_v]

\* ScanLine with the minimum of 4 fields, the close taken from the last one.
ScanLine_FourFields(best, ln) ==
  LET parts   == SplitOn(ln, ",")
      date_s  == Strip(parts[1])
      close_v == ParseFloat(Strip(parts[IF Len(parts) < 5 THEN Len(parts) ELSE 5]))
      d1      == StrpDate(date_s, 1)
      d       == IF d1 # None THEN d1 ELSE StrpDate(date_s, 0)
  IN  IF Len(parts) < 4 \/ close_v = None \/ d = None THEN best
      ELSE IF best.best_d = None \/ DateGT(d, best.best_d)
           THEN [best_d |-> d, best_close |-> close_v]
           ELSE best

\* One pass of the loop body over the data line ln; best is the pair
\* (best_d, best_close) before the pass, the result the pair after it.
ScanLine(best, ln) ==
  LET parts   == SplitOn(ln, ",")
      date_s  == Strip(parts[1])
      close_s == Strip(parts[5])
      close_v == ParseFloat(close_s)
      d1      == StrpDate(date_s, 1)
      d       == IF d1 # None THEN d1 ELSE StrpDate(date_s, 0)
  IN  IF Len(parts) < 5 THEN best
      ELSE IF close_v = None THEN best
      ELSE IF d = None THEN best
      ELSE IF best.best_d = None \/ DateGT(d, best.best_d)
           THEN [best_d |-> d, best_close |-> close_v]
           ELSE best

RECURSIVE ScanLines(_, _)
ScanLines(best, ls) ==
  IF ls = <<>> THEN best ELSE ScanLines(ScanLine(best, Head(ls)), Tail(ls))

NoBest == [best_d |-> None, best_close |-> None]

\* lines = [ln.strip() for ln in r.text.splitlines() if ln.strip()]
NonBlankLines(text) == SelectLines(SplitLines(text))

\* fetch_price_stooq without the test of r.ok.
fetch_price_stooq_NoOkCheck(tick, r) ==
  LET t     == Upper(Strip(tick))
      lns   == NonBlankLines(r.text)
  IN  IF t = <<>> THEN None
      ELSE IF Len(lns) < 2 THEN None
      ELSE ScanLines(NoBest, Tail(lns)).best_close

\* The value fetch_price_stooq returns for ticker when the quote provider
\* answers r = [ok, text].
fetch_price_stooq(tick, r) ==
  LET t     == Upper(Strip(tick))
      lns   == NonBlankLines(r.text)
  IN  IF t = <<>> THEN None
      ELSE IF ~r.ok THEN None
      ELSE IF Len(lns) < 2 THEN None
      ELSE ScanLines(NoBest, Tail(lns)).best_close

----------------------------------------------------------------------------
(* Sample texts *)

\* "Date,Open,High,Low,Close,Volume"
HeaderLine ==
  <<"D", "a", "t", "e", ",", "O", "p", "e", "n", ",", "H", "i", "g", "h",
    ",", "L", "o", "w", ",", "C", "l", "o", "s", "e", ",", "V", "o", "l",
    "u", "m", "e">>

\* "2026-03-01,1,1,1,999,1"
HeaderLikeData ==
  <<"2", "0", "2", "6", "-", "0", "3", "-", "0", "1", ",", "1", ",", "1",
    ",", "1", ",", "9", "9", "9", ",", "1">>

\* "2026-01-01,1,1,1,100.0,1"
LineJan01 ==
  <<"2", "0", "2", "6", "-", "0", "1", "-", "0", "1", ",", "1", ",", "1",
    ",", "1", ",", "1", "0", "0", ".", "0", ",", "1">>

\* "2026-01-27,1,1,1,188.52,1"
LineJan27 ==
  <<"2", "0", "2", "6", "-", "0", "1", "-", "2", "7", ",", "1", ",", "1",
    ",", "1", ",", "1", "8", "8", ".", "5", "2", ",", "1">>

\* "20260115,1,1,1,150,1"
LineJan15Compact ==
  <<"2", "0", "2", "6", "0", "1", "1", "5", ",", "1", ",", "1", ",", "1",
    ",", "1", "5", "0", ",", "1">>

\* " 2026-01-27 ,1,1,1, 5.5 ,1 "
LineJan27Padded ==
  <<" ", "2", "0", "2", "6", "-", "0", "1", "-", "2", "7", " ", ",", "1",
    ",", "1", ",", "1", ",", " ", "5", ".", "5", " ", ",", "1", " ">>

\* "2026-02-01,1,1,9.9"
LineFourFields ==
  <<"2", "0", "2", "6", "-", "0", "2", "-", "0", "1", ",", "1", ",", "1",
    ",", "9", ".", "9">>

\* "2026-02-02,1,1,1,N/D,1"
LineBadClose ==
  <<"2", "0", "2", "6", "-", "0", "2", "-", "0", "2", ",", "1", ",", "1",
    ",", "1", ",", "N", "/", "D", ",", "1">>

\* "2026-02-30,1,1,1,7,1"
LineBadDate ==
  <<"2", "0", "2", "6", "-", "0", "2", "-", "3", "0", ",", "1", ",", "1",
    ",", "1", ",", "7", ",", "1">>

\* "  "
LineBlank ==
  <<" ", " ">>

\* " nv"
TextNV ==
  <<" ", "n", "v">>

\* "DA "
TextDA ==
  <<"D", "A", " ">>

\* " \t"
TextBlank ==
  <<" ", "\t">>

----------------------------------------------------------------------------
(* Configuration and bounds *)

TICKER_PROP == "Ticker"
CLOSE_PROP  == "Close"
STATUS_PROP == "Status"
PageSize    == 100

\* Bounds of the run of main(): page queries per run, and rows the store
\* returns in a run (in any split over the pages).
MaxPages == 2
MaxRows  == 3
\* Bounds of the runs of query_database_pages() under a plain consumer.
PagerMaxPages == 3
PagerMaxRows  == 3
\* Data lines (after the header) of a CSV body.
MaxLines == 3

SeqsUpTo(S, n) == UNION {[1..k -> S] : k \in 0..n}

VARIABLES
  only_status,   \* ONLY_STATUS, read from the environment at start-up
  pc,            \* position of the run
  payload,       \* query_database_pages: the request body, reused by every request
  has_more,      \* query_database_pages: loop variable
  next_cursor,   \* query_database_pages: loop variable
  data,          \* query_database_pages: resp.json() of the current page
  idx,           \* rows of data["results"] yielded so far
  updated,       \* main: counter
  skipped,       \* main: counter
  page_id,       \* main: id of the row in work
  ticker,        \* main: ticker of the row in work
  price,         \* main: price of the row in work
  summary,       \* the "Done." line on standard output, None while not printed
  exit_state,    \* "running", then "zero" or "nonzero"
  events,        \* network calls and sleeps, in the order they happen
  requests,      \* number of query requests sent
  last_request,  \* body of the last query request sent
  last_response, \* JSON of the last successful query response
  received,      \* rows of all successful query responses, in order
  yielded,       \* rows the generator has yielded, in order
  rowlog,        \* per row main has finished or holds: the row and the fetch result
  patches,       \* the PATCH requests sent: row id, body, outcome, and the
                 \* number of rows received from the store before the request
  store_failures,\* table-store calls (query, update) that failed
  last_quote,    \* what the quote provider did at the last quote request
  resp,          \* fetch_price_stooq: the response r of the quote provider
  lines,         \* fetch_price_stooq: the non-blank stripped lines
  ln_i,          \* fetch_price_stooq: index in lines of the line the loop is at
  best_d,        \* fetch_price_stooq
  best_close,    \* fetch_price_stooq
  result         \* fetch_price_stooq: the value returned

gen_vars   == <<only_status, payload, has_more, next_cursor, data, idx,
                requests, last_request, last_response, received, yielded>>
main_vars  == <<updated, skipped, page_id, ticker, price, summary, exit_state,
                rowlog, patches, last_quote>>
parse_vars == <<resp, lines, ln_i, best_d, best_close, result>>
vars       == <<pc, events, store_failures, gen_vars, main_vars, parse_vars>>

----------------------------------------------------------------------------
(* The table store and the quote provider *)

CursorC1 == <<"c", "1">>
CursorC2 == <<"c", "2">>

TitleProp(runs) == [type |-> "title", title |-> runs]

\* {"id": "r1", "properties": {"Ticker": title " nv" + "DA ", "Status": ...}}
RowNVDA(id) ==
  [id |-> id,
   properties |-> [Ticker |-> TitleProp(<<[plain_text |-> TextNV],
                                          [plain_text |-> TextDA]>>),
                   Status |-> [type |-> "status"]]]
\* A row whose property bag has no Ticker.
RowNoTicker == [id |-> "r2", properties |-> [Status |-> [type |-> "status"]]]
\* A row whose Ticker is whitespace only, one run without plain_text.
RowBlankTicker ==
  [id |-> "r3",
   properties |-> [Ticker |-> TitleProp(<<[plain_text |-> TextBlank],
                                          [href |-> "x"]>>)]]
\* A row whose Ticker has no text run, and no property "title" at all.
RowEmptyTitle == [id |-> "r4", properties |-> [Ticker |-> [type |-> "title"]]]

RowSamples == {RowNVDA("r1"), RowNoTicker, RowBlankTicker, RowEmptyTitle}
PagerRows  == {RowNVDA("r1"), RowNoTicker}

\* A failed table-store call: an error status with the JSON of the error, or
\* no response at all (timeout, connection error).
Failures == {[status |-> "http_error", json |-> [object |-> "error"]],
             [status |-> "conn_error"]}

\* What session.post(url, json=payload) can bring in a run of main().
MainResponses ==
  {[status |-> "ok",
    json |-> [results |-> rs, has_more |-> hm,
              next_cursor |-> IF hm THEN CursorC1 ELSE None]] :
     rs \in SeqsUpTo(RowSamples, MaxRows), hm \in BOOLEAN}
  \cup Failures

\* The same for the runs of the generator alone: has_more may be missing.
PagerResponses ==
  {[status |-> "ok", json |-> [results |-> rs, has_more |-> hm, next_cursor |-> nc]] :
     rs \in SeqsUpTo(PagerRows, PagerMaxRows), hm \in BOOLEAN,
     nc \in {None, CursorC1, CursorC2}}
  \cup {[status |-> "ok", json |-> [results |-> rs, next_cursor |-> nc]] :
     rs \in SeqsUpTo(PagerRows, PagerMaxRows), nc \in {None, CursorC1, CursorC2}}
  \cup Failures

PatchResponses == {[status |-> "ok"]} \cup Failures

\* text of lines, each ended by a line boundary
RECURSIVE Unlines(_)
Unlines(ls) ==
  IF ls = <<>> THEN <<>> ELSE Head(ls) \o <<"\n">> \o Unlines(Tail(ls))

\* What requests.get(url) can bring in a run of main().
MainQuotes ==
  {[status |-> "ok", text |-> Unlines(<<HeaderLine, LineJan27, LineJan01>>)],
   [status |-> "ok", text |-> Unlines(<<HeaderLine, LineBadClose>>)],
   [status |-> "http_error", text |-> Unlines(<<HeaderLine, LineJan01>>)],
   [status |-> "conn_error"]}

DataLineSamples ==
  {LineJan01, LineJan27, LineJan15Compact, LineJan27Padded, LineFourFields,
   LineBadClose, LineBadDate, LineBlank}

\* The CSV bodies of the scan: a header, or a blank line and a line that
\* looks like data in the place of the header, and data lines.
Bodies ==
  {Unlines(h \o ls) :
     h \in {<<HeaderLine>>, <<LineBlank, HeaderLikeData>>},
     ls \in SeqsUpTo(DataLineSamples, MaxLines)}

ParseResponses ==
  {[ok |-> TRUE, text |-> b] : b \in Bodies}
  \cup {[ok |-> FALSE, text |-> Unlines(<<HeaderLine, LineJan27>>)]}

----------------------------------------------------------------------------
(* get_title_text *)

\* "".join(t.get("plain_text", "") for t in title_arr)
RECURSIVE JoinPlainText(_)
JoinPlainText(title_arr) ==
  IF title_arr = <<>> THEN <<>>
  ELSE DictGet(Head(title_arr), "plain_text", <<>>) \o JoinPlainText(Tail(title_arr))

\* get_title_text without .strip().
get_title_text_NoStrip(prop_obj) ==
  IF ~Truthy(prop_obj) THEN <<>>
  ELSE JoinPlainText(DictGet(prop_obj, "title", <<>>))

get_title_text(prop_obj) ==
  IF ~Truthy(prop_obj) THEN <<>>
  ELSE Strip(JoinPlainText(DictGet(prop_obj, "title", <<>>)))

----------------------------------------------------------------------------
(* query_database_pages *)

StatusOpen == <<"O", "p", "e", "n">>

\* d[k] = v of a dict
DictSet(d, k, v) == [x \in DOMAIN d \cup {k} |-> IF x = k THEN v ELSE d[x]]

\* The payload built before the loop.
InitialPayload(os) ==
  IF Truthy(os)
  THEN [page_size |-> PageSize,
        filter |-> [property |-> STATUS_PROP, status |-> [equals |-> os]]]
  ELSE [page_size |-> PageSize]

\* NextPayload without the test of the cursor: payload["start_cursor"] is
\* set at every pass.
NextPayload_Unconditional(pl, cursor) == DictSet(pl, "start_cursor", cursor)

\* The payload of the next request: the cursor is stored only if it is true.
NextPayload(pl, cursor) ==
  IF Truthy(cursor) THEN DictSet(pl, "start_cursor", cursor) ELSE pl

\* AfterPage with data.get("has_more", True).
AfterPage_DefaultTrue(d) ==
  [has_more |-> DictGet(d, "has_more", TRUE),
   next_cursor |-> DictGet(d, "next_cursor", None)]

\* The loop variables after a page: has_more and next_cursor.
AfterPage(d) ==
  [has_more |-> DictGet(d, "has_more", FALSE),
   next_cursor |-> DictGet(d, "next_cursor", None)]

\* PageEndEvents without time.sleep(0.2).
PageEndEvents_NoSleep == <<>>

\* The events at the end of a page.
PageEndEvents == <<"sleep">>

\* Raises without the calls of raise_for_status(): only the transport raises.
Raises_OnlyTransport(r) == r.status = "conn_error"

\* session.post / session.patch followed by resp.raise_for_status(): an
\* exception leaves the call if the transport fails or the status is an
\* error.  Nothing in the program catches it.
Raises(r) == r.status # "ok"

\* RowAt that never advances in the page.
RowAt_First(d, i) == DictGet(d, "results", <<>>)[1]

\* The row the generator yields after i rows of the page d.
RowAt(d, i) == DictGet(d, "results", <<>>)[i + 1]

\* One pass of the while loop up to the first yield: the request and the
\* response r.  The run is cut at bound requests and at maxrows rows.
QueryPage(r, bound, maxrows) ==
  /\ pc = "query"
  /\ requests < bound
  /\ r.status = "ok" => Len(received) + Len(DictGet(r.json, "results", <<>>)) <= maxrows
  /\ payload' = NextPayload(payload, next_cursor)
  /\ last_request' = payload'
  /\ requests' = requests + 1
  /\ events' = Append(events, "query")
  /\ store_failures' = IF r.status = "ok" THEN store_failures ELSE store_failures + 1
  /\ IF ~Raises(r)
     THEN /\ data' = r.json
          /\ idx' = 0
          /\ last_response' = r.json
          /\ received' = received \o DictGet(r.json, "results", <<>>)
          /\ pc' = "yield"
          /\ UNCHANGED exit_state
     ELSE /\ pc' = "aborted"
          /\ exit_state' = "nonzero"
          /\ UNCHANGED <<data, idx, last_response, received>>
  /\ UNCHANGED <<only_status, has_more, next_cursor, yielded>>
  /\ UNCHANGED <<updated, skipped, page_id, ticker, price, summary, rowlog, patches,
                 last_quote>>
  /\ UNCHANGED parse_vars

\* The rows of the page are used up: the end of the pass, and the loop test.
EndPage ==
  /\ pc = "yield"
  /\ idx = Len(DictGet(data, "results", <<>>))
  /\ has_more' = AfterPage(data).has_more
  /\ next_cursor' = AfterPage(data).next_cursor
  /\ events' = events \o PageEndEvents
  /\ pc' = IF has_more' THEN "query" ELSE "exhausted"
  /\ UNCHANGED store_failures
  /\ UNCHANGED <<only_status, payload, data, idx, requests, last_request,
                 last_response, received, yielded>>
  /\ UNCHANGED main_vars
  /\ UNCHANGED parse_vars

\* for page in data.get("results", []): yield page -- to a caller that only
\* takes the row.
Consume ==
  /\ pc = "yield"
  /\ idx < Len(DictGet(data, "results", <<>>))
  /\ idx' = idx + 1
  /\ yielded' = Append(yielded, RowAt(data, idx))
  /\ UNCHANGED <<pc, events, store_failures>>
  /\ UNCHANGED <<only_status, payload, has_more, next_cursor, data, requests,
                 last_request, last_response, received>>
  /\ UNCHANGED main_vars
  /\ UNCHANGED parse_vars

----------------------------------------------------------------------------
(* update_close and main *)

\* ClosePayload with int(price).
ClosePayload_Truncated(p) ==
  [properties |->
     [Close |-> [number |-> <<p[1] \div (IF p[2] = 0 THEN 1 ELSE IF p[2] = 1 THEN 10 ELSE 100), 0>>]]]

\* The body of the PATCH request of update_close.
ClosePayload(p) == [properties |-> (CLOSE_PROP :> [number |-> p])]

\* The events of a row update that succeeds.
UpdateEvents == <<"update", "sleep">>

\* The generator yields the next row; main reads id and ticker, and skips
\* the row if the ticker is empty.
NextRow ==
  /\ pc = "yield"
  /\ idx < Len(DictGet(data, "results", <<>>))
  /\ LET page  == RowAt(data, idx)
         props == DictGet(page, "properties", <<>>)
         tk    == get_title_text(DictGet(props, TICKER_PROP, None))
     IN  /\ idx' = idx + 1
         /\ yielded' = Append(yielded, page)
         /\ page_id' = page.id
         /\ ticker' = tk
         /\ IF ~Truthy(tk)
            THEN /\ skipped' = skipped + 1
                 /\ rowlog' = Append(rowlog, [row |-> page, fetched |-> FALSE, price |-> None])
                 /\ pc' = "yield"
            ELSE /\ pc' = "fetch"
                 /\ UNCHANGED <<skipped, rowlog>>
  /\ UNCHANGED <<only_status, payload, has_more, next_cursor, data, requests,
                 last_request, last_response, received>>
  /\ UNCHANGED <<updated, price, summary, exit_state, patches, last_quote, events,
                 store_failures>>
  /\ UNCHANGED parse_vars

\* price = fetch_price_stooq(ticker), and the skip if there is no price.
\* q is what the quote provider does: a response, or no response at all
\* (requests.get raises, and nothing catches it).
FetchPrice(q) ==
  /\ pc = "fetch"
  /\ IF ~Truthy(Upper(Strip(ticker)))
     THEN /\ price' = None
          /\ skipped' = skipped + 1
          /\ rowlog' = Append(rowlog, [row |-> yielded[Len(yielded)], fetched |-> FALSE, price |-> None])
          /\ pc' = "yield"
          /\ UNCHANGED <<events, exit_state, last_quote>>
     ELSE /\ events' = Append(events, "fetch")
          /\ last_quote' = q
          /\ IF q.status = "conn_error"
             THEN /\ pc' = "aborted"
                  /\ exit_state' = "nonzero"
                  /\ UNCHANGED <<price, skipped, rowlog>>
             ELSE LET p == fetch_price_stooq(ticker, [ok |-> q.status = "ok", text |-> q.text])
                  IN  /\ price' = p
                      /\ rowlog' = Append(rowlog, [row |-> yielded[Len(yielded)], fetched |-> TRUE, price |-> p])
                      /\ IF p = None
                         THEN skipped' = skipped + 1 /\ pc' = "yield"
                         ELSE pc' = "update" /\ UNCHANGED skipped
                      /\ UNCHANGED exit_state
  /\ UNCHANGED gen_vars
  /\ UNCHANGED <<updated, page_id, ticker, summary, patches, store_failures>>
  /\ UNCHANGED parse_vars

\* update_close(page_id, price), then the count and the sleep.
UpdateClose(r) ==
  /\ pc = "update"
  /\ patches' = Append(patches, [page_id |-> page_id, json |-> ClosePayload(price),
                                 status |-> r.status,
                                 received_before |-> Len(received)])
  /\ store_failures' = IF r.status = "ok" THEN store_failures ELSE store_failures + 1
  /\ IF ~Raises(r)
     THEN /\ updated' = updated + 1
          /\ events' = events \o UpdateEvents
          /\ pc' = "yield"
          /\ UNCHANGED exit_state
     ELSE /\ events' = Append(events, "update")
          /\ pc' = "aborted"
          /\ exit_state' = "nonzero"
          /\ UNCHANGED updated
  /\ UNCHANGED gen_vars
  /\ UNCHANGED <<skipped, page_id, ticker, price, summary, rowlog, last_quote>>
  /\ UNCHANGED parse_vars

\* The generator is exhausted: the summary line and the normal exit.
Finish ==
  /\ pc = "exhausted"
  /\ summary' = [Updated |-> updated, Skipped |-> skipped]
  /\ exit_state' = "zero"
  /\ pc' = "done"
  /\ UNCHANGED <<events, store_failures>>
  /\ UNCHANGED gen_vars
  /\ UNCHANGED <<updated, skipped, page_id, ticker, price, rowlog, patches, last_quote>>
  /\ UNCHANGED parse_vars

----------------------------------------------------------------------------
(* fetch_price_stooq, line by line *)

\* From the response to the start of the loop.
StooqResponse ==
  /\ pc = "get"
  /\ LET lns == NonBlankLines(resp.text)
     IN  IF ~resp.ok \/ Len(lns) < 2
         THEN /\ result' = None
              /\ pc' = "returned"
              /\ lines' = IF resp.ok THEN lns ELSE lines
              /\ UNCHANGED <<ln_i, best_d, best_close>>
         ELSE /\ lines' = lns
              /\ ln_i' = 2
              /\ best_d' = None
              /\ best_close' = None
              /\ pc' = "scan"
              /\ UNCHANGED result
  /\ UNCHANGED <<resp, events, store_failures>>
  /\ UNCHANGED gen_vars
  /\ UNCHANGED main_vars

\* One pass of the loop over lines[1:].
ScanStep ==
  /\ pc = "scan"
  /\ ln_i <= Len(lines)
  /\ LET b == ScanLine([best_d |-> best_d, best_close |-> best_close], lines[ln_i])
     IN  best_d' = b.best_d /\ best_close' = b.best_close
  /\ ln_i' = ln_i + 1
  /\ UNCHANGED <<pc, resp, lines, result, events, store_failures>>
  /\ UNCHANGED gen_vars
  /\ UNCHANGED main_vars

\* return best_close
ScanReturn ==
  /\ pc = "scan"
  /\ ln_i > Len(lines)
  /\ result' = best_close
  /\ pc' = "returned"
  /\ UNCHANGED <<resp, lines, ln_i, best_d, best_close, events, store_failures>>
  /\ UNCHANGED gen_vars
  /\ UNCHANGED main_vars

----------------------------------------------------------------------------
(* Specifications *)

GenInit(os) ==
  /\ only_status = os
  /\ payload = InitialPayload(os)
  /\ has_more = TRUE
  /\ next_cursor = None
  /\ data = None
  /\ idx = 0
  /\ requests = 0
  /\ last_request = None
  /\ last_response = None
  /\ received = <<>>
  /\ yielded = <<>>

MainInit ==
  /\ updated = 0
  /\ skipped = 0
  /\ page_id = None
  /\ ticker = None
  /\ price = None
  /\ summary = None
  /\ exit_state = "running"
  /\ rowlog = <<>>
  /\ patches = <<>>
  /\ last_quote = None

ParseIdle ==
  /\ resp = None
  /\ lines = <<>>
  /\ ln_i = 0
  /\ best_d = None
  /\ best_close = None
  /\ result = None

\* A run of main().
Init ==
  /\ pc = "query"
  /\ events = <<>>
  /\ store_failures = 0
  /\ GenInit(StatusOpen)
  /\ MainInit
  /\ ParseIdle

Next ==
  \/ \E r \in MainResponses : QueryPage(r, MaxPages, MaxRows)
  \/ NextRow
  \/ \E q \in MainQuotes : FetchPrice(q)
  \/ \E r \in PatchResponses : UpdateClose(r)
  \/ EndPage
  \/ Finish

Spec == Init /\ [][Next]_vars

\* A run of query_database_pages() whose caller takes every row.
PagerInit ==
  /\ pc = "query"
  /\ events = <<>>
  /\ store_failures = 0
  /\ \E os \in {StatusOpen, <<>>} : GenInit(os)
  /\ MainInit
  /\ ParseIdle

PagerNext ==
  \/ \E r \in PagerResponses : QueryPage(r, PagerMaxPages, PagerMaxRows)
  \/ Consume
  \/ EndPage

PagerSpec == PagerInit /\ [][PagerNext]_vars

\* A call of fetch_price_stooq("NVDA") from the response on.
ParseInit ==
  /\ pc = "get"
  /\ events = <<>>
  /\ store_failures = 0
  /\ GenInit(StatusOpen)
  /\ MainInit
  /\ resp \in ParseResponses
  /\ lines = <<>>
  /\ ln_i = 0
  /\ best_d = None
  /\ best_close = None
  /\ result = None

ParseNext ==
  \/ StooqResponse
  \/ ScanStep
  \/ ScanReturn

ParseSpec == ParseInit /\ [][ParseNext]_vars

----------------------------------------------------------------------------
(* What the claims speak of *)

\* The data lines of a CSV body: the lines after the header, the header
\* being the first line that is not blank.
DataLines(text) ==
  LET lns == NonBlankLines(text) IN IF lns = <<>> THEN <<>> ELSE Tail(lns)

HeaderOf(text) == Head(NonBlankLines(text))

FieldsOf(ln) == SplitOn(ln, ",")

\* The date of a data line, in either format, and its close.
DateOf(ln) ==
  LET date_s == Strip(FieldsOf(ln)[1])
  IN  IF StrpDate(date_s, 1) # None THEN StrpDate(date_s, 1) ELSE StrpDate(date_s, 0)

CloseOf(ln) == ParseFloat(Strip(FieldsOf(ln)[5]))

\* A data line parses successfully; a malformed line is one that does not.
ParsesOk(ln) ==
  /\ Len(FieldsOf(ln)) >= 5
  /\ CloseOf(ln) # None
  /\ DateOf(ln) # None

Malformed(ln) == ~ParsesOk(ln)

Permute(ls, f) == [i \in 1..Len(ls) |-> ls[f[i]]]

\* The body of a response whose data lines are ls, under the header h.
BodyOf(h, ls) == Unlines(<<h>> \o ls)

QuoteOk(text) == [ok |-> TRUE, text |-> text]

NVDA == <<"N", "V", "D", "A">>

\* C3: for a CSV body returned with a success status, fetch_price_stooq
\* returns the close of a data line whose date is the maximum among the data
\* lines that parse, returns None if no data line parses, and returns the
\* same value for every permutation of the data lines when the dates of the
\* lines that parse are distinct.
C3_LatestDateWins ==
  (pc = "returned" /\ resp.ok) =>
    LET dl   == DataLines(resp.text)
        good == {i \in 1..Len(dl) : ParsesOk(dl[i])}
    IN  /\ good = {} => result = None
        /\ good # {} =>
             \E i \in good :
               /\ \A j \in good : ~DateGT(DateOf(dl[j]), DateOf(dl[i]))
               /\ result = CloseOf(dl[i])
        /\ (\A i, j \in good : i # j => DateOf(dl[i]) # DateOf(dl[j])) =>
             \A f \in Permutations(1..Len(dl)) :
               fetch_price_stooq(NVDA, QuoteOk(BodyOf(HeaderOf(resp.text), Permute(dl, f))))
                 = result

\* C3: the later date stands before the earlier one and wins, against a third
\* line in the other date format.
C3_Witness ==
  /\ pc = "returned"
  /\ resp.ok
  /\ DataLines(resp.text) = <<LineJan27, LineJan15Compact, LineJan01>>
  /\ result = <<18852, 2>>

\* C8: a malformed data line is skipped and the scan goes on: the result for
\* a body is the result for the body without its malformed data lines, and a
\* body whose data lines all have an unparsable close gives None.
C8_MalformedLinesSkipped ==
  (pc = "returned" /\ resp.ok) =>
    LET dl == DataLines(resp.text)
    IN  /\ NonBlankLines(resp.text) # <<>> =>
             result = fetch_price_stooq(NVDA,
                        QuoteOk(BodyOf(HeaderOf(resp.text), SelectSeq(dl, ParsesOk))))
        /\ (\A i \in 1..Len(dl) :
              Len(FieldsOf(dl[i])) < 5 \/ CloseOf(dl[i]) = None) => result = None

\* C8: a line of 4 fields before and a line with a bad close after the only
\* valid line, both dated later than it.
C8_Witness ==
  /\ pc = "returned"
  /\ resp.ok
  /\ DataLines(resp.text) = <<LineFourFields, LineJan27, LineBadClose>>
  /\ result = <<18852, 2>>

Count(seq, x) == Cardinality({i \in 1..Len(seq) : seq[i] = x})

IsPrefix(a, b) == Len(a) <= Len(b) /\ a = SubSeq(b, 1, Len(a))

\* C4: query_database_pages yields the rows of the responses in the order
\* of the responses and of the rows in each, every row once; it asks for a
\* further page exactly when the last response says has_more, one request
\* per response, and stops after the first response that does not.
C4_PagesInOrderThenStop ==
  /\ IsPrefix(yielded, received)
  /\ Len(received) - Len(yielded) = Len(DictGet(data, "results", <<>>)) - idx
  /\ requests = Count(events, "query")
  /\ (pc = "query" /\ requests > 0) =>
       /\ DictGet(last_response, "has_more", FALSE)
       /\ yielded = received
       /\ Count(events, "sleep") = requests
  /\ pc = "exhausted" =>
       /\ ~DictGet(last_response, "has_more", FALSE)
       /\ yielded = received
       /\ Count(events, "sleep") = requests

\* C4: three pages, the first two with has_more and a cursor, the last
\* without the key has_more; three rows were yielded, then the generator
\* ended.
C4_Witness ==
  /\ pc = "exhausted"
  /\ requests = 3
  /\ "has_more" \notin DOMAIN last_response
  /\ yielded = <<RowNVDA("r1"), RowNoTicker, RowNVDA("r1")>>
  /\ idx = 1
  /\ DictGet(last_request, "start_cursor", None) = CursorC2

\* The cursor a query request carries, None if it carries none.
CursorSent(req) == DictGet(req, "start_cursor", None)

SameQuery(req) ==
  /\ req.page_size = PageSize
  /\ DictGet(req, "filter", None) = DictGet(InitialPayload(only_status), "filter", None)
  /\ Truthy(only_status) <=> "filter" \in DOMAIN req

\* C10 as stated: the first request carries no start_cursor and every later
\* request carries the next_cursor of the response just before it, which is
\* a token; every request has page_size 100 and the same filter.
C10_CursorOfPrecedingResponse ==
  [][requests' = requests + 1 =>
       /\ SameQuery(last_request')
       /\ IF requests = 0
          THEN "start_cursor" \notin DOMAIN last_request'
          ELSE /\ "start_cursor" \in DOMAIN last_request'
               /\ Truthy(DictGet(last_response, "next_cursor", None))
               /\ last_request'.start_cursor = DictGet(last_response, "next_cursor", None)
    ]_vars

\* C10 amended: a later request carries the next_cursor of the response
\* just before it if that is a token; if it is null, the request carries
\* what the request before it carried (an older token, or no start_cursor).
C10_CursorAdvancesOrStays ==
  [][requests' = requests + 1 =>
       /\ SameQuery(last_request')
       /\ IF requests = 0
          THEN "start_cursor" \notin DOMAIN last_request'
          ELSE LET prev == DictGet(last_response, "next_cursor", None)
               IN  IF Truthy(prev)
                   THEN /\ "start_cursor" \in DOMAIN last_request'
                        /\ last_request'.start_cursor = prev
                   ELSE /\ CursorSent(last_request') = CursorSent(last_request)
                        /\ DOMAIN last_request' = DOMAIN last_request
    ]_vars

\* C10: the third request carried the token of the first response, because
\* the second response said has_more with a null next_cursor.
C10_Witness ==
  /\ requests = 3
  /\ pc = "yield"
  /\ next_cursor = None
  /\ has_more
  /\ DictGet(last_request, "start_cursor", None) = CursorC1
  /\ Truthy(only_status)

\* The text runs of the ticker property of a row, none if it is missing.
TickerRuns(row) ==
  LET props == DictGet(row, "properties", <<>>)
      prop  == DictGet(props, TICKER_PROP, None)
  IN  IF prop = None THEN <<>> ELSE DictGet(prop, "title", <<>>)

\* The ticker property is missing, or its text runs hold nothing but
\* whitespace.
BlankTicker(row) ==
  \A i \in 1..Len(TickerRuns(row)) :
    LET txt == DictGet(TickerRuns(row)[i], "plain_text", <<>>)
    IN  \A j \in 1..Len(txt) : txt[j] \in Whitespace

\* The update calls main has to make for the rows of log, in order.
RECURSIVE ExpectedCalls(_)
ExpectedCalls(log) ==
  IF log = <<>> THEN <<>>
  ELSE LET e == Head(log)
       IN  (IF ~BlankTicker(e.row) /\ e.price # None
            THEN <<[page_id |-> e.row.id,
                    json |-> [properties |-> [Close |-> [number |-> e.price]]]]>>
            ELSE <<>>)
           \o ExpectedCalls(Tail(log))

\* The update calls main has made: row id and body.
CallsMade == [i \in 1..Len(patches) |-> [page_id |-> patches[i].page_id,
                                         json |-> patches[i].json]]

Front(seq) == SubSeq(seq, 1, Len(seq) - 1)

OkPatches == Cardinality({i \in 1..Len(patches) : patches[i].status = "ok"})

\* C1: while no table-store call has failed, the update calls made are, in
\* order, one call per row with a ticker and a fetched price, against the id
\* of the row and with that price, and none for any other row; the summary is
\* printed only when all rows are used up and reports the number of update
\* calls as Updated and the number of the other rows as Skipped.
C1_OneUpdatePerPricedRow ==
  store_failures = 0 =>
    /\ Len(rowlog) <= Len(yielded)
    /\ \A i \in 1..Len(rowlog) :
         /\ rowlog[i].row = yielded[i]
         /\ rowlog[i].fetched <=> ~BlankTicker(rowlog[i].row)
    /\ CallsMade = ExpectedCalls(IF pc = "update" THEN Front(rowlog) ELSE rowlog)
    /\ pc = "done" => summary # None
    /\ summary # None =>
         /\ pc = "done"
         /\ ~has_more
         /\ yielded = received
         /\ Len(rowlog) = Len(yielded)
         /\ summary = [Updated |-> Len(patches), Skipped |-> Len(yielded) - Len(patches)]

\* C1: two pages and three rows; r1 was updated with 188.52 and the two
\* other rows were skipped.
C1_Witness ==
  /\ pc = "done"
  /\ requests = 2
  /\ Len(yielded) = 3
  /\ CallsMade = <<[page_id |-> "r1",
                    json |-> [properties |-> [Close |-> [number |-> <<18852, 2>>]]]]>>
  /\ summary = [Updated |-> 1, Skipped |-> 2]

\* C2: a row whose ticker property is missing, empty or whitespace only is
\* skipped at once: the skip count grows by one, the update count stays, and
\* neither a quote request nor an update is made before the next row.
C2_BlankTickerSkipped ==
  [][(pc = "yield" /\ idx < Len(DictGet(data, "results", <<>>))
        /\ BlankTicker(DictGet(data, "results", <<>>)[idx + 1])) =>
       /\ skipped' = skipped + 1
       /\ updated' = updated
       /\ events' = events
       /\ patches' = patches
       /\ last_quote' = last_quote
       /\ pc' = "yield"
       /\ idx' = idx + 1
       /\ yielded' = Append(yielded, DictGet(data, "results", <<>>)[idx + 1])
    ]_vars

\* C2: after an update of r1, a row without the property and a row with a
\* whitespace ticker were skipped without a further quote request.
C2_Witness ==
  /\ Len(rowlog) = 3
  /\ rowlog[1].price # None
  /\ {rowlog[i].row : i \in 2..3} = {RowNoTicker, RowBlankTicker}
  /\ skipped = 2
  /\ updated = 1
  /\ Count(events, "fetch") = 1

\* C5 as stated: no row id is the target of two update calls, and no row
\* comes in a query response again after it has been written.
C5_OneWritePerRowId ==
  /\ \A i, j \in 1..Len(patches) :
       i < j => patches[i].page_id # patches[j].page_id
  /\ \A k \in 1..Len(patches) : \A j \in 1..Len(received) :
       (patches[k].status = "ok" /\ j > patches[k].received_before)
         => received[j].id # patches[k].page_id

RowIds == {received[i].id : i \in 1..Len(received)}

\* C5 amended: at most one update call is made per row yielded, and the
\* rows of the responses are yielded once each, in order; so an id the store
\* returns once is written at most once and is not read again.
C5_OneWritePerYieldedRow ==
  /\ IsPrefix(yielded, received)
  /\ \A x \in RowIds :
       Cardinality({i \in 1..Len(patches) : patches[i].page_id = x})
         <= Cardinality({i \in 1..Len(yielded) : yielded[i].id = x})
  /\ \A i \in 1..Len(patches) : patches[i].page_id \in RowIds
  /\ (\A i, j \in 1..Len(received) : i # j => received[i].id # received[j].id)
       => C5_OneWritePerRowId

\* C5: the store returned r1 in two responses and r1 was written twice.
C5_Witness ==
  /\ Len(patches) = 2
  /\ patches[1].page_id = "r1" /\ patches[1].status = "ok"
  /\ patches[2].page_id = "r1" /\ patches[2].status = "ok"
  /\ patches[2].received_before > patches[1].received_before
  /\ requests = 2

LastEvent(kinds) == Len(events) > 0 /\ events[Len(events)] \in kinds

\* What C6 says of a run in which a table-store call failed.
AbortsAtStoreFailure ==
  store_failures > 0 =>
    /\ store_failures = 1
    /\ pc = "aborted"
    /\ exit_state = "nonzero"
    /\ summary = None
    /\ LastEvent({"query", "update"})
    /\ \A i \in 1..(Len(patches) - 1) : patches[i].status = "ok"
    /\ updated = OkPatches
    /\ updated + skipped =
         Len(rowlog) - (IF LastEvent({"update"}) THEN 1 ELSE 0)

ExitStates ==
  /\ exit_state = "zero" <=> pc = "done"
  /\ exit_state = "nonzero" <=> pc = "aborted"
  /\ pc = "done" => summary # None

\* C6 as stated: a failed table-store call ends the run at that call, with
\* no summary, no retry and a nonzero exit, the earlier writes standing; and
\* a run that ends without such a failure ends with the summary and exit zero.
C6_AbortOnlyOnStoreFailure ==
  /\ AbortsAtStoreFailure
  /\ ExitStates
  /\ (store_failures = 0 /\ pc \in {"done", "aborted"}) => pc = "done"

\* C6 amended: a run that ends without a table-store failure ends with the
\* summary and exit zero, unless the quote request itself raised (timeout,
\* connection error), which ends the run at that call with a nonzero exit.
C6_AbortOnStoreFailureOrQuoteException ==
  /\ AbortsAtStoreFailure
  /\ ExitStates
  /\ (store_failures = 0 /\ pc \in {"done", "aborted"}) =>
       \/ pc = "done"
       \/ /\ LastEvent({"fetch"})
          /\ last_quote.status = "conn_error"
          /\ summary = None
          /\ updated = OkPatches
          /\ updated + skipped = Len(rowlog)

\* C6: the second update got an error status after the first was written.
C6_Witness ==
  /\ pc = "aborted"
  /\ Len(patches) = 2
  /\ patches[1].status = "ok"
  /\ patches[2].status = "http_error"
  /\ updated = 1
  /\ exit_state = "nonzero"

\* The quote request failed the way C7 speaks of.
QuoteFailed(q) ==
  \/ q.status = "http_error"
  \/ /\ q.status = "ok"
     /\ \A i \in 1..Len(DataLines(q.text)) : Malformed(DataLines(q.text)[i])

\* C7: a quote request that gets an error status, or a body without a data
\* line that parses, makes the row a skip: the skip count grows by one, no
\* update is made, the run is not aborted and goes on to the next row.
C7_QuoteFailureIsSkip ==
  [][(pc = "fetch" /\ events' = Append(events, "fetch") /\ QuoteFailed(last_quote')) =>
       /\ skipped' = skipped + 1
       /\ updated' = updated
       /\ patches' = patches
       /\ pc' = "yield"
       /\ exit_state' = "running"
       /\ idx' = idx
       /\ rowlog' = Append(rowlog, [row |-> yielded[Len(yielded)], fetched |-> TRUE,
                                   price |-> None])
    ]_vars

\* C7: after an update, two rows in a row lost their quote, the last one to
\* an error status; the run went on and the summary was printed.
C7_Witness ==
  /\ pc = "done"
  /\ Len(rowlog) = 3
  /\ rowlog[1].price # None
  /\ rowlog[2].fetched /\ rowlog[2].price = None
  /\ rowlog[3].fetched /\ rowlog[3].price = None
  /\ last_quote.status = "http_error"
  /\ summary = [Updated |-> 1, Skipped |-> 2]

NetworkCalls == {"query", "fetch", "update"}

\* C9 as stated: after each network call a sleep takes place before the
\* next network call.
C9_SleepAfterEveryCall ==
  \A i \in 1..(Len(events) - 1) :
    events[i] \in NetworkCalls => events[i + 1] = "sleep"

\* C9 amended: a sleep follows each successful update and each page once its
\* rows are used up, so a page query has a sleep right before it; a quote
\* request has no sleep after it, and none stands between a page query and
\* the first quote request of the page.
C9_SleepAfterUpdateAndPage ==
  \A i \in 1..(Len(events) - 1) :
    /\ events[i] = "update" => events[i + 1] = "sleep"
    /\ events[i + 1] = "query" => events[i] = "sleep"
    /\ events[i + 1] = "update" => events[i] = "fetch"
    /\ events[i + 1] = "fetch" => events[i] \in {"query", "fetch", "sleep"}
    /\ events[i] = "query" => events[i + 1] \in {"fetch", "sleep"}

\* C9: a quote request right after a page query, an update right after the
\* quote request, then the sleeps of the update and of the page, and the
\* next page query.
C9_Witness ==
  /\ Len(events) >= 6
  /\ SubSeq(events, 1, 6) = <<"query", "fetch", "update", "sleep", "sleep", "query">>

====
